---------------------------- MODULE Spec2Model ----------------------------
(***************************************************************************)
(* A model of the chunking and span-reconstruction pipeline of             *)
(* src/src/rag/chunking.py.                                                *)
(*                                                                         *)
(* Text is a sequence of one-character strings over Chars.  Offsets into   *)
(* a text are 0-based, as in Python: the slice s[i:j] is SubSeq(s, i+1, j).*)
(* A chunk is a record [page_content, metadata]; metadata is a function    *)
(* from the keys that are present to their values, so that "key in dict"   *)
(* is k \in DOMAIN m.                                                      *)
(*                                                                         *)
(* Three specifications are given.  SpecSpans runs add_spans_inplace on an *)
(* arbitrary original text and an arbitrary chunk list, one loop           *)
(* iteration per step.  Spec runs chunk_documents from its call to its     *)
(* return or its exception, the windows the splitters cut being left open. *)
(* SpecSplit runs chunk_documents with method recursive_only on one        *)
(* document, with the windowing of RecursiveCharacterTextSplitter spelled  *)
(* out.                                                                    *)
(***************************************************************************)
EXTENDS Integers, Sequences, FiniteSets, TLC

(***************************************************************************)
(* Bounds of the model.                                                    *)
(***************************************************************************)
MaxTextLen == 2
MaxContentLen == 2
MaxChunks == 3
MaxDocs == 2
MaxPieces == 1
MaxSize == 2
MaxSplitLen == 4
MaxSplitSize == 3
MaxFiles == 2

\* The alphabet: one letter and one whitespace character.
Chars == {"a", " "}

\* The prefix probe of add_spans_inplace is text[: min(200, len(text))].  The
\* model scales the window from 200 characters down to 1 so that contents
\* longer than the window exist within MaxContentLen.
PrefixLen == 1

\* Python's None as a span value, and str.find's "not found".  Resolved
\* offsets are never negative, so the two do not collide with them.
None == -1
NotFound == -1

Min(a, b) == IF a <= b THEN a ELSE b

SetMin(S) == CHOOSE x \in S : \A y \in S : x <= y

SetMax(S) == CHOOSE x \in S : \A y \in S : y <= x

\* All texts of length at most n.
StringsUpTo(n) == UNION {[1..k -> Chars] : k \in 0..n}

(***************************************************************************)
(* Python string operations.                                               *)
(***************************************************************************)
IsSpace(c) == c \in {" ", "\n"}

\* s[i:j] for 0 <= i <= j <= len(s).
Slice(s, i, j) == SubSeq(s, i + 1, j)

\* Find that ignores its start argument.
FindIgnoringStart(s, sub, start) ==
    LET hits == {i \in 0..(Len(s) - Len(sub)) : Slice(s, i, i + Len(sub)) = sub}
    IN  IF hits = {} THEN NotFound ELSE SetMin(hits)

\* s.find(sub, start) for 0 <= start: the lowest index i >= start with
\* s[i:i+len(sub)] = sub, or -1.  The empty string is found at start
\* whenever start <= len(s).
Find(s, sub, start) ==
    LET hits == {i \in start..(Len(s) - Len(sub)) : Slice(s, i, i + Len(sub)) = sub}
    IN  IF hits = {} THEN NotFound ELSE SetMin(hits)

\* s.strip(): s without its leading and trailing whitespace.
Strip(s) ==
    LET solid == {i \in 1..Len(s) : ~IsSpace(s[i])}
    IN  IF solid = {} THEN <<>>
        ELSE SubSeq(s, SetMin(solid), CHOOSE i \in solid : \A j \in solid : j <= i)

(***************************************************************************)
(* Chunk metadata: dict operations.                                        *)
(***************************************************************************)
EmptyMeta == [k \in {} |-> 0]

SetKey(m, k, v) == [x \in DOMAIN m \cup {k} |-> IF x = k THEN v ELSE m[x]]

SetDefault(m, k, v) == IF k \in DOMAIN m THEN m ELSE SetKey(m, k, v)

(***************************************************************************)
(* add_spans_inplace: the body of one loop iteration.  A span is the pair  *)
(* written to span_start/span_end, with the step that produced it.         *)
(***************************************************************************)
Unmatched == [start |-> None, end |-> None, step |-> "unmatched"]

\* ExactMatch with the content searched from the start of the text instead
\* of from the cursor.
ExactMatchFromZero(original_text, text, cursor) ==
    LET start == Find(original_text, text, 0)
    IN  IF start # NotFound
        THEN [start |-> start, end |-> start + Len(text), step |-> "exact"]
        ELSE Unmatched

\* Step 1: the content itself, searched from the cursor.
ExactMatch(original_text, text, cursor) ==
    LET start == Find(original_text, text, cursor)
    IN  IF start # NotFound
        THEN [start |-> start, end |-> start + Len(text), step |-> "exact"]
        ELSE Unmatched

\* StrippedMatch with the end computed from the unstripped content.
StrippedMatchLenOfText(original_text, text, cursor) ==
    LET stripped == Strip(text)
        start2 == IF stripped # <<>> /\ stripped # text
                  THEN Find(original_text, stripped, cursor)
                  ELSE NotFound
    IN  IF start2 # NotFound
        THEN [start |-> start2, end |-> start2 + Len(text), step |-> "stripped"]
        ELSE Unmatched

\* StrippedMatch with the stripped content searched from the start of the
\* text instead of from the cursor.
StrippedMatchFromZero(original_text, text, cursor) ==
    LET stripped == Strip(text)
        start2 == IF stripped # <<>> /\ stripped # text
                  THEN Find(original_text, stripped, 0)
                  ELSE NotFound
    IN  IF start2 # NotFound
        THEN [start |-> start2, end |-> start2 + Len(stripped), step |-> "stripped"]
        ELSE Unmatched

\* Step 2: the stripped content, when it is non-empty and differs.
StrippedMatch(original_text, text, cursor) ==
    LET stripped == Strip(text)
        start2 == IF stripped # <<>> /\ stripped # text
                  THEN Find(original_text, stripped, cursor)
                  ELSE NotFound
    IN  IF start2 # NotFound
        THEN [start |-> start2, end |-> start2 + Len(stripped), step |-> "stripped"]
        ELSE Unmatched

\* PrefixMatch with the probe searched from the start of the text
\* instead of from the cursor.
PrefixMatchFromZero(original_text, text, cursor) ==
    LET prefix == Strip(Slice(text, 0, Min(PrefixLen, Len(text))))
        start2 == IF prefix # <<>>
                  THEN Find(original_text, prefix, 0)
                  ELSE NotFound
    IN  IF start2 # NotFound
        THEN [start |-> start2,
              end |-> Min(Len(original_text), start2 + Len(text)),
              step |-> "prefix"]
        ELSE Unmatched

\* PrefixMatch with the end left unclamped.
PrefixMatchUnclamped(original_text, text, cursor) ==
    LET prefix == Strip(Slice(text, 0, Min(PrefixLen, Len(text))))
        start2 == IF prefix # <<>>
                  THEN Find(original_text, prefix, cursor)
                  ELSE NotFound
    IN  IF start2 # NotFound
        THEN [start |-> start2, end |-> start2 + Len(text), step |-> "prefix"]
        ELSE Unmatched

\* Step 3: the stripped prefix probe; the end is clamped to the text.
PrefixMatch(original_text, text, cursor) ==
    LET prefix == Strip(Slice(text, 0, Min(PrefixLen, Len(text))))
        start2 == IF prefix # <<>>
                  THEN Find(original_text, prefix, cursor)
                  ELSE NotFound
    IN  IF start2 # NotFound
        THEN [start |-> start2,
              end |-> Min(Len(original_text), start2 + Len(text)),
              step |-> "prefix"]
        ELSE Unmatched

LocateSpan(original_text, text, cursor) ==
    LET exact == ExactMatch(original_text, text, cursor)
        stripped == StrippedMatch(original_text, text, cursor)
    IN  IF exact.end # None THEN exact
        ELSE IF stripped.end # None THEN stripped
        ELSE PrefixMatch(original_text, text, cursor)

\* NextCursor that never advances.
NextCursorStuck(cursor, span) == cursor

\* NextCursor that moves to the start of the resolved span.
NextCursorToStart(cursor, span) == IF span.end = None THEN cursor ELSE span.start

\* The cursor after an iteration: the resolved end, or unchanged.
NextCursor(cursor, span) == IF span.end = None THEN cursor ELSE span.end

\* WithSpan that writes span_end only for a resolved chunk.
WithSpanEndWhenResolved(c, span) ==
    [c EXCEPT !.metadata =
        IF span.end = None
        THEN SetKey(c.metadata, "span_start", span.start)
        ELSE SetKey(SetKey(c.metadata, "span_start", span.start), "span_end", span.end)]

\* The chunk after an iteration: both span keys are written.
WithSpan(c, span) ==
    [c EXCEPT !.metadata =
        SetKey(SetKey(c.metadata, "span_start", span.start), "span_end", span.end)]

\* add_spans_inplace as a whole: the loop over chunks i, i+1, ... with the
\* cursor cur.
RECURSIVE AddSpansFrom(_, _, _, _)
AddSpansFrom(text, cs, i, cur) ==
    IF i > Len(cs) THEN cs
    ELSE LET span == LocateSpan(text, cs[i].page_content, cur)
         IN  AddSpansFrom(text, [cs EXCEPT ![i] = WithSpan(cs[i], span)],
                          i + 1, NextCursor(cur, span))

AddSpansInplace(text, cs) == AddSpansFrom(text, cs, 1, 0)

(***************************************************************************)
(* The splitters of langchain_text_splitters.  build_splitters constructs  *)
(* them; the constructor of RecursiveCharacterTextSplitter validates the   *)
(* sizes.  What the splitters return is left open: any list of at most     *)
(* MaxPieces windows per text, none for the empty text.  Each window of    *)
(* the model is one non-whitespace character of the text.                  *)
(***************************************************************************)

\* TextSplitter.__init__: ValueError for chunk_size <= 0, for
\* chunk_overlap < 0 and for chunk_overlap > chunk_size.  build_splitters
\* adds no check of its own.
BuildSplittersRaises(size, overlap) ==
    \/ size <= 0
    \/ overlap < 0
    \/ overlap > size

Windows(text) == {<<text[i]>> : i \in {j \in 1..Len(text) : ~IsSpace(text[j])}}

\* Windowings returning one empty window for a text without content.
WindowingsKeepingEmpty(text) ==
    IF Windows(text) = {} THEN {<<<<>>>>}
    ELSE UNION {[1..k -> Windows(text)] : k \in 0..MaxPieces}

\* The window lists a splitter may return for one text.
Windowings(text) ==
    IF Windows(text) = {} THEN {<<>>}
    ELSE UNION {[1..k -> Windows(text)] : k \in 0..MaxPieces}

\* The header context MarkdownHeaderTextSplitter attaches to its i-th
\* section: keys among h1, h2, h3.
HeaderContext(i) ==
    IF i = 1 THEN [h1 |-> "Title"] ELSE [h1 |-> "Title", h2 |-> "Sub"]

\* header_splitter.split_text(text): the possible lists of sections.
HeaderSplitText(text) ==
    {[i \in 1..Len(w) |-> [page_content |-> w[i], metadata |-> HeaderContext(i)]] :
        w \in Windowings(text)}

\* splitter.split_documents(ds): each window of a document becomes a chunk
\* with a copy of that document's metadata; the possible results.
RECURSIVE SplitDocuments(_)
SplitDocuments(ds) ==
    IF ds = <<>> THEN {<<>>}
    ELSE {[i \in 1..Len(w) |-> [page_content |-> w[i], metadata |-> Head(ds).metadata]]
            \o rest :
            w \in Windowings(Head(ds).page_content),
            rest \in SplitDocuments(Tail(ds))}

(***************************************************************************)
(* RecursiveCharacterTextSplitter.split_text, as build_splitters           *)
(* configures it: the default separators, keep_separator = True, lengths   *)
(* in characters, strip_whitespace = True.  Every piece the splitter       *)
(* handles is a stretch of the text, so a piece is the pair <<lo, hi>> of   *)
(* the offsets text[lo:hi] it was cut from.                                *)
(***************************************************************************)
Separators == <<<<"\n", "\n">>, <<"\n">>, <<" ">>, <<>>>>

PieceLen(d) == d[2] - d[1]

\* The offsets of the non-overlapping occurrences of sep in text[from:hi],
\* left to right, as re.split finds them.
RECURSIVE SeparatorHits(_, _, _, _)
SeparatorHits(text, sep, from, hi) ==
    LET hits == {p \in from..(hi - Len(sep)) : Slice(text, p, p + Len(sep)) = sep}
    IN  IF hits = {} THEN <<>>
        ELSE <<SetMin(hits)>> \o SeparatorHits(text, sep, SetMin(hits) + Len(sep), hi)

\* _split_text_with_regex with keep_separator = True: each separator stays
\* at the start of the piece that follows it; empty pieces are dropped.
\* The empty separator splits into single characters.
SplitTextWithRegex(text, d, sep) ==
    IF sep = <<>>
    THEN [k \in 1..PieceLen(d) |-> <<d[1] + k - 1, d[1] + k>>]
    ELSE LET hits == SeparatorHits(text, sep, d[1], d[2])
             n == Len(hits)
             pieces == [k \in 1..(n + 1) |->
                          <<IF k = 1 THEN d[1] ELSE hits[k - 1],
                            IF k = n + 1 THEN d[2] ELSE hits[k]>>]
         IN  SelectSeq(pieces, LAMBDA x : x[1] < x[2])

\* The length of the pieces held in current_doc (they are adjacent).
Total(cur) == IF cur = <<>> THEN 0 ELSE cur[Len(cur)][2] - cur[1][1]

\* _join_docs: the pieces joined and stripped; nothing when that is empty.
JoinDocs(text, cur) ==
    IF cur = <<>> THEN <<>>
    ELSE LET solid == {i \in (cur[1][1] + 1)..cur[Len(cur)][2] : ~IsSpace(text[i])}
         IN  IF solid = {} THEN <<>> ELSE <<<<SetMin(solid) - 1, SetMax(solid)>>>>

\* Trim that only makes room for the next piece.
RECURSIVE TrimForRoomOnly(_, _, _, _)
TrimForRoomOnly(cur, len, size, overlap) ==
    IF Total(cur) + len > size /\ Total(cur) > 0
    THEN TrimForRoomOnly(Tail(cur), len, size, overlap)
    ELSE cur

\* Trim that only cuts down to the overlap.
RECURSIVE TrimToOverlapOnly(_, _, _, _)
TrimToOverlapOnly(cur, len, size, overlap) ==
    IF Total(cur) > overlap
    THEN TrimToOverlapOnly(Tail(cur), len, size, overlap)
    ELSE cur

\* _merge_splits, after a chunk was emitted: pieces are dropped from the
\* front of current_doc while it is longer than chunk_overlap or leaves no
\* room for the next piece, of length len.
RECURSIVE Trim(_, _, _, _)
Trim(cur, len, size, overlap) ==
    IF Total(cur) > overlap \/ (Total(cur) + len > size /\ Total(cur) > 0)
    THEN Trim(Tail(cur), len, size, overlap)
    ELSE cur

\* MergeFrom that forgets the pieces held at the end.
RECURSIVE MergeFromDroppingTail(_, _, _, _, _, _, _)
MergeFromDroppingTail(text, splits, k, cur, out, size, overlap) ==
    IF k > Len(splits) THEN out
    ELSE LET d == splits[k]
         IN  IF Total(cur) + PieceLen(d) > size /\ cur # <<>>
             THEN MergeFromDroppingTail(text, splits, k + 1,
                            Append(Trim(cur, PieceLen(d), size, overlap), d),
                            out \o JoinDocs(text, cur), size, overlap)
             ELSE MergeFromDroppingTail(text, splits, k + 1, Append(cur, d), out,
                                        size, overlap)

\* _merge_splits, the loop from piece k on: cur is current_doc, out the
\* chunks emitted so far.
RECURSIVE MergeFrom(_, _, _, _, _, _, _)
MergeFrom(text, splits, k, cur, out, size, overlap) ==
    IF k > Len(splits) THEN out \o JoinDocs(text, cur)
    ELSE LET d == splits[k]
         IN  IF Total(cur) + PieceLen(d) > size /\ cur # <<>>
             THEN MergeFrom(text, splits, k + 1,
                            Append(Trim(cur, PieceLen(d), size, overlap), d),
                            out \o JoinDocs(text, cur), size, overlap)
             ELSE MergeFrom(text, splits, k + 1, Append(cur, d), out, size, overlap)

MergeSplits(text, splits, size, overlap) ==
    MergeFrom(text, splits, 1, <<>>, <<>>, size, overlap)

\* The first separator, from position from of the list on, that is empty or
\* occurs in the piece.
ChooseSeparator(text, d, from) ==
    SetMin({s \in from..Len(Separators) :
               \/ Separators[s] = <<>>
               \/ SeparatorHits(text, Separators[s], d[1], d[2]) # <<>>})

\* _split_text: the piece d is split at the chosen separator; pieces
\* shorter than chunk_size are collected and merged, a longer one is split
\* again with the separators that remain or, when none remains, emitted as
\* it is.
RECURSIVE SplitTextFrom(_, _, _, _, _)
RECURSIVE ProcessSplits(_, _, _, _, _, _, _, _)
SplitTextFrom(text, d, from, size, overlap) ==
    LET s == ChooseSeparator(text, d, from)
    IN  ProcessSplits(text, SplitTextWithRegex(text, d, Separators[s]),
                      1, <<>>, <<>>, s, size, overlap)

ProcessSplits(text, splits, k, good, final, s, size, overlap) ==
    LET merged == IF good = <<>> THEN <<>>
                  ELSE MergeSplits(text, good, size, overlap)
    IN  IF k > Len(splits) THEN final \o merged
        ELSE IF PieceLen(splits[k]) < size
        THEN ProcessSplits(text, splits, k + 1, Append(good, splits[k]), final,
                           s, size, overlap)
        ELSE ProcessSplits(text, splits, k + 1, <<>>,
                 final \o merged \o
                    (IF Separators[s] = <<>> THEN <<splits[k]>>
                     ELSE SplitTextFrom(text, splits[k], s + 1, size, overlap)),
                 s, size, overlap)

\* splitter.split_text(text): the windows, as stretches of the text.
SplitText(text, size, overlap) ==
    SplitTextFrom(text, <<0, Len(text)>>, 1, size, overlap)

(***************************************************************************)
(* chunk_documents.                                                        *)
(***************************************************************************)

\* doc.metadata.get("source", "")
SourceOf(doc) ==
    IF "source" \in DOMAIN doc.metadata THEN doc.metadata["source"] ELSE ""

\* IsMarkdown testing for ".md" only.
IsMarkdownOnlyMd(source) == source \in {"guide.md"}

\* str(source).lower().endswith((".md", ".mdx")), on the sources of the model.
IsMarkdown(source) == source \in {"guide.md", "page.mdx", "GUIDE.MDX"}

\* for c in cs: c.metadata.setdefault("source", source)
SetDefaultSource(cs, source) ==
    [i \in 1..Len(cs) |->
        [cs[i] EXCEPT !.metadata = SetDefault(@, "source", source)]]

\* for md_doc in md_docs: md_doc.metadata["source"] = source
SetSource(md_docs, source) ==
    [i \in 1..Len(md_docs) |->
        [md_docs[i] EXCEPT !.metadata = SetKey(@, "source", source)]]

\* _split_documents_auto, one document: the possible chunk lists.
SplitOneAuto(doc) ==
    LET source == SourceOf(doc)
    IN  IF IsMarkdown(source)
        THEN UNION {{SetDefaultSource(md_chunks, source) :
                        md_chunks \in SplitDocuments(SetSource(md_docs, source))} :
                    md_docs \in HeaderSplitText(doc.page_content)}
        ELSE {SetDefaultSource(doc_chunks, source) :
                 doc_chunks \in SplitDocuments(<<doc>>)}

\* splitter.split_documents([doc]) under recursive_only, the body of the
\* loop of _split_documents_auto under auto: the chunk lists one document
\* may yield.
SplitOne(doc, method) ==
    IF method = "recursive_only" THEN SplitDocuments(<<doc>>) ELSE SplitOneAuto(doc)

\* The documents ds[k], ds[k+1], ... cut one after the other and their chunks
\* concatenated in document order.  A result is the chunk list together
\* with, for each chunk, the index of the document it was cut from.
RECURSIVE CutFrom(_, _, _)
CutFrom(ds, k, method) ==
    IF k > Len(ds) THEN {[chunks |-> <<>>, origin |-> <<>>]}
    ELSE {[chunks |-> first \o rest.chunks,
           origin |-> [i \in 1..Len(first) |-> k] \o rest.origin] :
            first \in SplitOne(ds[k], method),
            rest \in CutFrom(ds, k + 1, method)}

\* _split_documents_auto: the possible results.
SplitDocumentsAuto(ds) == CutFrom(ds, 1, "auto")

\* _split_documents_recursive_only with the default source applied whatever
\* the number of documents.
SplitDocumentsRecursiveOnlyUnguarded(ds) ==
    {IF Len(ds) >= 1
     THEN [r EXCEPT !.chunks = SetDefaultSource(@, SourceOf(ds[1]))]
     ELSE r :
        r \in CutFrom(ds, 1, "recursive_only")}

\* _split_documents_recursive_only: the possible results.  split_documents
\* windows each document on its own and returns the chunks in document
\* order.
SplitDocumentsRecursiveOnly(ds) ==
    {IF Len(ds) = 1
     THEN [r EXCEPT !.chunks = SetDefaultSource(@, SourceOf(ds[1]))]
     ELSE r :
        r \in CutFrom(ds, 1, "recursive_only")}

\* AnnotateChunk numbering the chunks from 1.
AnnotateChunkOneBased(c, idx, method, size, overlap) ==
    [c EXCEPT !.metadata =
        SetKey(SetKey(SetKey(SetKey(SetKey(
            SetDefault(@, "source", ""),
            "chunk_index", idx + 1),
            "chunk_chars", Len(c.page_content)),
            "chunking_method", method),
            "chunk_size", size),
            "chunk_overlap", overlap)]

\* AnnotateChunk adding the length to a chunk_chars already present.
AnnotateChunkAccumulating(c, idx, method, size, overlap) ==
    [c EXCEPT !.metadata =
        SetKey(SetKey(SetKey(SetKey(SetKey(
            SetDefault(@, "source", ""),
            "chunk_index", idx),
            "chunk_chars",
                (IF "chunk_chars" \in DOMAIN c.metadata
                 THEN c.metadata["chunk_chars"] ELSE 0) + Len(c.page_content)),
            "chunking_method", method),
            "chunk_size", size),
            "chunk_overlap", overlap)]

\* AnnotateChunk writing "" to source whether or not it is present.
AnnotateChunkOverwritingSource(c, idx, method, size, overlap) ==
    [c EXCEPT !.metadata =
        SetKey(SetKey(SetKey(SetKey(SetKey(
            SetKey(@, "source", ""),
            "chunk_index", idx),
            "chunk_chars", Len(c.page_content)),
            "chunking_method", method),
            "chunk_size", size),
            "chunk_overlap", overlap)]

\* The body of the preview-metadata loop for the chunk at position idx.
AnnotateChunk(c, idx, method, size, overlap) ==
    [c EXCEPT !.metadata =
        SetKey(SetKey(SetKey(SetKey(SetKey(
            SetDefault(@, "source", ""),
            "chunk_index", idx),
            "chunk_chars", Len(c.page_content)),
            "chunking_method", method),
            "chunk_size", size),
            "chunk_overlap", overlap)]

\* AnnotatePreview with chunk_size and chunk_overlap exchanged.
AnnotatePreviewSizesExchanged(cs, method, size, overlap) ==
    [i \in 1..Len(cs) |-> AnnotateChunk(cs[i], i - 1, method, overlap, size)]

\* for idx, c in enumerate(chunks): ...
AnnotatePreview(cs, method, size, overlap) ==
    [i \in 1..Len(cs) |-> AnnotateChunk(cs[i], i - 1, method, size, overlap)]

\* SpansRefused refusing only the empty document list.
SpansRefusedOnlyEmpty(ds) == Len(ds) = 0

\* include_spans is refused unless there is exactly one document.
SpansRefused(ds) == Len(ds) # 1

ConfigError == "ValueError: chunk_size / chunk_overlap"
UsageError == "ValueError: include_spans requires a single-document input"

\* The inputs of the model.
Methods == {"auto", "recursive_only"}

Documents ==
    {[page_content |-> <<"a", " ", "a">>, metadata |-> [source |-> "notes.txt"]],
     [page_content |-> <<>>, metadata |-> [source |-> "notes.txt"]],
     [page_content |-> <<"a", " ", "a">>, metadata |-> EmptyMeta],
     [page_content |-> <<>>, metadata |-> [source |-> "guide.md"]],
     [page_content |-> <<"a", " ", "a">>, metadata |-> [source |-> "page.mdx"]]}

VARIABLES
    original_text,  \* add_spans_inplace: its first argument
    given,          \* add_spans_inplace: the chunks as passed in, those read so far
    located,        \* add_spans_inplace: the same chunks after their iteration
    cursor,         \* add_spans_inplace: the search cursor
    resolved_by,    \* per located chunk, the step that resolved it
    docs,           \* chunk_documents: its arguments
    chunk_size,
    chunk_overlap,
    method,
    include_preview_metadata,
    include_spans,
    pc,             \* chunk_documents: where the call stands
    chunks,         \* chunk_documents: the local list, returned at the end
    origin,         \* per chunk, the index in docs of the document it was cut from
    windows,        \* per chunk, the stretch <<lo, hi>> of its document's text it
                    \* was cut from, where the windowing is spelled out
    raised,         \* chunk_documents: the exception that ended the call, or ""
    passes,         \* how often the preview-metadata loop ran over chunks
    files,          \* ingest: the files under the data directory, in rglob order
    next_file,      \* ingest: the position load_documents has reached in files
    rebuild,        \* ingest: WEAVIATE_REBUILD = "1"
    store,          \* the vector store: whether the collection exists, its objects
    store_before,   \* the vector store as the previous run left it
    written,        \* ingest: how many chunks of this run have been written
    conversations,  \* db: the rows of table conversations
    messages,       \* db: the rows of table messages, by ascending id
    last_conversation_id,   \* db: the AUTOINCREMENT sequence of conversations
    db_calls,       \* db: how many calls were made
    db_result,      \* db: the latest call and what it returned or raised
    kb_delete_policy,   \* db: the value stored in settings under kb_delete_policy
    kb_files,       \* db: the rows of table kb_files, path to uploader_user_id
    last_upload,    \* per file name, the user of the most recent upload
    kb_answer,      \* the latest answer of can_delete_kb_file
    runs            \* lg_api: the runs_stream requests

spanVars == <<original_text, given, located, cursor, resolved_by>>

callVars == <<docs, chunk_size, chunk_overlap, method,
              include_preview_metadata, include_spans>>

ingestVars == <<files, next_file, rebuild, store, store_before, written>>

dbVars == <<conversations, messages, last_conversation_id, db_calls, db_result>>

kbVars == <<kb_delete_policy, kb_files, last_upload, kb_answer>>

\* What chunk_documents and add_spans_inplace never touch.
outsideVars == <<ingestVars, dbVars, kbVars, runs>>

chunkingVars == <<spanVars, callVars, pc, chunks, origin, windows, raised, passes>>

vars == <<spanVars, callVars, pc, chunks, origin, windows, raised, passes, outsideVars>>

EmptyStore == [exists |-> FALSE, objects |-> <<>>]

\* No run of ingest is under way.
NoIngest ==
    /\ files = <<>>
    /\ next_file = 1
    /\ rebuild = TRUE
    /\ store = EmptyStore
    /\ store_before = EmptyStore
    /\ written = 0

NoResult == [op |-> "", user_id |-> 0, conversation_id |-> 0,
             value |-> <<>>, raised |-> ""]

\* The tables conversations and messages are empty, no call was made.
NoDb ==
    /\ conversations = {}
    /\ messages = <<>>
    /\ last_conversation_id = 0
    /\ db_calls = 0
    /\ db_result = NoResult

NoAnswer == [user_id |-> 0, path |-> "", granted |-> FALSE]

\* The settings table has no row for the key.
NoSetting == [present |-> FALSE, value |-> <<>>]

\* The tables settings and kb_files are empty.
NoKb ==
    /\ kb_delete_policy = NoSetting
    /\ kb_files = <<>>
    /\ last_upload = <<>>
    /\ kb_answer = NoAnswer

\* No runs_stream request was made.
NoStream == runs = <<>>

NothingElse == NoIngest /\ NoDb /\ NoKb /\ NoStream

\* No call of chunk_documents is under way.
NoCall ==
    /\ docs = <<>>
    /\ chunk_size = 1
    /\ chunk_overlap = 0
    /\ method = "auto"
    /\ include_preview_metadata = FALSE
    /\ include_spans = FALSE
    /\ pc = "idle"
    /\ chunks = <<>>
    /\ origin = <<>>
    /\ windows = <<>>
    /\ raised = ""
    /\ passes = 0

\* The chunks a caller may pass: any content, some metadata already present.
GivenChunks ==
    {[page_content |-> t, metadata |-> [source |-> "n.txt"]] : t \in StringsUpTo(MaxContentLen)}

InitSpans ==
    /\ original_text \in StringsUpTo(MaxTextLen)
    /\ given = <<>>
    /\ located = <<>>
    /\ cursor = 0
    /\ resolved_by = <<>>
    /\ NoCall
    /\ NothingElse

\* One iteration of "for c in chunks".  The chunk list is the caller's; the
\* loop reads each chunk once and never looks ahead, so the model reveals
\* the list one chunk per iteration.
AddSpansStep ==
    /\ Len(given) < MaxChunks
    /\ \E c \in GivenChunks :
         LET span == LocateSpan(original_text, c.page_content, cursor)
         IN  /\ given' = Append(given, c)
             /\ located' = Append(located, WithSpan(c, span))
             /\ cursor' = NextCursor(cursor, span)
             /\ resolved_by' = Append(resolved_by, span.step)
    /\ UNCHANGED <<original_text, callVars, outsideVars, pc, chunks, origin, windows, raised, passes>>

NextSpans == AddSpansStep

SpecSpans == InitSpans /\ [][NextSpans]_vars

(***************************************************************************)
(* chunk_documents, from its call to its return or its exception.          *)
(***************************************************************************)
Init ==
    /\ original_text = <<>>
    /\ given = <<>>
    /\ located = <<>>
    /\ cursor = 0
    /\ resolved_by = <<>>
    /\ docs \in UNION {[1..n -> Documents] : n \in 0..MaxDocs}
    /\ chunk_size \in 0..MaxSize
    /\ chunk_overlap \in 0..MaxSize
    /\ method \in Methods
    /\ include_preview_metadata \in BOOLEAN
    /\ include_spans \in BOOLEAN
    /\ pc = "build_splitters"
    /\ chunks = <<>>
    /\ origin = <<>>
    /\ windows = <<>>
    /\ raised = ""
    /\ passes = 0
    /\ NothingElse

\* header_splitter, splitter = build_splitters(...)
BuildSplitters ==
    /\ pc = "build_splitters"
    /\ IF BuildSplittersRaises(chunk_size, chunk_overlap)
       THEN pc' = "raised" /\ raised' = ConfigError
       ELSE pc' = "segment" /\ raised' = raised
    /\ UNCHANGED <<spanVars, callVars, outsideVars, chunks, origin, windows, passes>>

\* if method == "recursive_only": ... else: ...
Segment ==
    /\ pc = "segment"
    /\ \E result \in IF method = "recursive_only"
                      THEN SplitDocumentsRecursiveOnly(docs)
                      ELSE SplitDocumentsAuto(docs) :
          /\ chunks' = result.chunks
          /\ origin' = result.origin
    /\ windows' = windows
    /\ pc' = "annotate"
    /\ UNCHANGED <<spanVars, callVars, outsideVars, raised, passes>>

\* if include_preview_metadata: ...
Annotate ==
    /\ pc = "annotate"
    /\ IF include_preview_metadata
       THEN /\ chunks' = AnnotatePreview(chunks, method, chunk_size, chunk_overlap)
            /\ passes' = 1
       ELSE UNCHANGED <<chunks, passes>>
    /\ pc' = "spans"
    /\ UNCHANGED <<spanVars, callVars, outsideVars, origin, windows, raised>>

\* if include_spans: ...; return chunks
Spans ==
    /\ pc = "spans"
    /\ IF include_spans /\ SpansRefused(docs)
       THEN pc' = "raised" /\ raised' = UsageError /\ chunks' = chunks
       ELSE /\ pc' = "returned"
            /\ raised' = raised
            /\ chunks' = IF include_spans
                         THEN AddSpansInplace(docs[1].page_content, chunks)
                         ELSE chunks
    /\ UNCHANGED <<spanVars, callVars, outsideVars, origin, windows, passes>>

\* The preview-metadata loop run once more over the returned chunks, with
\* the same method, chunk_size and chunk_overlap.
AnnotateAgain ==
    /\ pc = "returned"
    /\ passes = 1
    /\ chunks' = AnnotatePreview(chunks, method, chunk_size, chunk_overlap)
    /\ passes' = 2
    /\ UNCHANGED <<spanVars, callVars, outsideVars, pc, origin, windows, raised>>

Next ==
    \/ BuildSplitters
    \/ Segment
    \/ Annotate
    \/ Spans
    \/ AnnotateAgain

Spec == Init /\ [][Next]_vars

(***************************************************************************)
(* chunk_documents with method recursive_only on one document, the         *)
(* windowing of the splitter spelled out.                                  *)
(***************************************************************************)
SplitChars == {"a", "b", " ", "\n"}

SplitTexts == UNION {[1..k -> SplitChars] : k \in 0..MaxSplitLen}

InitSplit ==
    /\ original_text = <<>>
    /\ given = <<>>
    /\ located = <<>>
    /\ cursor = 0
    /\ resolved_by = <<>>
    /\ \E text \in SplitTexts :
          docs = <<[page_content |-> text, metadata |-> [source |-> "notes.txt"]]>>
    /\ chunk_size \in 0..MaxSplitSize
    /\ chunk_overlap \in 0..MaxSplitSize
    /\ method = "recursive_only"
    /\ include_preview_metadata = FALSE
    /\ include_spans = FALSE
    /\ pc = "build_splitters"
    /\ chunks = <<>>
    /\ origin = <<>>
    /\ windows = <<>>
    /\ raised = ""
    /\ passes = 0
    /\ NothingElse

\* _split_documents_recursive_only(docs, splitter) for a single document:
\* one chunk per window, with a copy of the document's metadata.
SegmentRecursiveOnly ==
    /\ pc = "segment"
    /\ method = "recursive_only"
    /\ Len(docs) = 1
    /\ LET text == docs[1].page_content
           found == SplitText(text, chunk_size, chunk_overlap)
       IN  /\ windows' = found
           /\ origin' = [k \in 1..Len(found) |-> 1]
           /\ chunks' = SetDefaultSource(
                  [k \in 1..Len(found) |->
                      [page_content |-> Slice(text, found[k][1], found[k][2]),
                       metadata |-> docs[1].metadata]],
                  SourceOf(docs[1]))
    /\ pc' = "annotate"
    /\ UNCHANGED <<spanVars, callVars, outsideVars, raised, passes>>

NextSplit ==
    \/ BuildSplitters
    \/ SegmentRecursiveOnly
    \/ Annotate
    \/ Spans

SpecSplit == InitSplit /\ [][NextSplit]_vars

(***************************************************************************)
(* ingest of src/src/rag/ingest.py: load the files, split them, connect,   *)
(* drop the collection in rebuild mode, write the chunks.                  *)
(***************************************************************************)

\* RecursiveCharacterTextSplitter(chunk_size=800, chunk_overlap=120)
IngestChunkSize == 800
IngestChunkOverlap == 120

ReadError == "UnicodeDecodeError / OSError"
NoDocuments == "SystemExit: No documents found"
ProviderError == "error from embeddings_from_env / weaviate_client_from_env"

\* The files the data directory may hold: path, text, whether read_text
\* succeeds.
DataFiles ==
    {[path |-> "notes.txt", text |-> <<"a", " ", "a">>, readable |-> TRUE],
     [path |-> "page.mdx", text |-> <<"a", " ", "a">>, readable |-> TRUE],
     [path |-> "guide.md", text |-> <<>>, readable |-> TRUE],
     [path |-> "broken.txt", text |-> <<>>, readable |-> FALSE],
     [path |-> "logo.png", text |-> <<>>, readable |-> FALSE]}

\* path.suffix.lower() in {".txt", ".md", ".mdx"}, on the paths of the model.
AllowedSuffix(path) == path \in {"notes.txt", "page.mdx", "guide.md", "broken.txt"}

\* ReadOutcome with read errors ignored.
ReadOutcomeIgnoringErrors(file) ==
    IF ~AllowedSuffix(file.path) \/ ~file.readable THEN "skipped" ELSE "document"

\* One iteration of the loop of load_documents: the file is skipped, read
\* into a document, or read_text raises.
ReadOutcome(file) ==
    IF ~AllowedSuffix(file.path) THEN "skipped"
    ELSE IF ~file.readable THEN "raises"
    ELSE "document"

\* Document(page_content=text, metadata={"source": str(path)})
LoadedDocument(file) ==
    [page_content |-> file.text, metadata |-> [source |-> file.path]]

\* source.lower().endswith((".md", ".mdx")), on the sources of the model.
IngestIsMarkdown(source) == source \in {"guide.md", "page.mdx", "GUIDE.MDX"}

\* The body of the loop over docs in ingest: the chunk lists one document
\* may yield.
IngestSplitOne(doc) ==
    LET source == SourceOf(doc)
    IN  IF IngestIsMarkdown(source)
        THEN UNION {SplitDocuments(SetSource(md_docs, source)) :
                        md_docs \in HeaderSplitText(doc.page_content)}
        ELSE SplitDocuments(<<doc>>)

\* The loop over docs in ingest: the possible chunk lists.
RECURSIVE IngestSplit(_)
IngestSplit(ds) ==
    IF ds = <<>> THEN {<<>>}
    ELSE {first \o rest :
            first \in IngestSplitOne(Head(ds)),
            rest \in IngestSplit(Tail(ds))}

\* ShouldDrop that never drops.
ShouldDropNever(rebuilding, exists) == FALSE

\* rebuild and client.schema.exists(class_name)
ShouldDrop(rebuilding, exists) == rebuilding /\ exists

\* An object of the collection: the chunk and the run that wrote it.
OldObject ==
    [run |-> "previous",
     chunk |-> [page_content |-> <<"a">>, metadata |-> [source |-> "old.txt"]]]

InitIngest ==
    /\ original_text = <<>>
    /\ given = <<>>
    /\ located = <<>>
    /\ cursor = 0
    /\ resolved_by = <<>>
    /\ docs = <<>>
    /\ chunk_size = IngestChunkSize
    /\ chunk_overlap = IngestChunkOverlap
    /\ method = "auto"
    /\ include_preview_metadata = FALSE
    /\ include_spans = FALSE
    /\ pc = "load"
    /\ chunks = <<>>
    /\ origin = <<>>
    /\ windows = <<>>
    /\ raised = ""
    /\ passes = 0
    /\ files \in UNION {[1..n -> DataFiles] : n \in 0..MaxFiles}
    /\ next_file = 1
    /\ rebuild \in BOOLEAN
    /\ store \in {EmptyStore, [exists |-> TRUE, objects |-> <<OldObject>>]}
    /\ store_before = store
    /\ written = 0
    /\ NoDb
    /\ NoKb
    /\ NoStream

ingestFrame == <<spanVars, chunk_size, chunk_overlap, method,
                 include_preview_metadata, include_spans, origin, windows, passes,
                 files, rebuild, store_before, dbVars, kbVars, runs>>

\* load_documents: one file of the directory.
ReadFile ==
    /\ pc = "load"
    /\ next_file <= Len(files)
    /\ LET file == files[next_file]
           outcome == ReadOutcome(file)
       IN  /\ docs' = IF outcome = "document"
                      THEN Append(docs, LoadedDocument(file))
                      ELSE docs
           /\ IF outcome = "raises"
              THEN pc' = "raised" /\ raised' = ReadError
              ELSE pc' = pc /\ raised' = raised
    /\ next_file' = next_file + 1
    /\ UNCHANGED <<ingestFrame, chunks, store, written>>

\* load_documents returns; if not docs: raise SystemExit
Loaded ==
    /\ pc = "load"
    /\ next_file > Len(files)
    /\ IF docs = <<>>
       THEN pc' = "raised" /\ raised' = NoDocuments
       ELSE pc' = "split" /\ raised' = raised
    /\ UNCHANGED <<ingestFrame, docs, chunks, next_file, store, written>>

\* The splitters are built and the documents split.
SplitLoaded ==
    /\ pc = "split"
    /\ IF BuildSplittersRaises(chunk_size, chunk_overlap)
       THEN pc' = "raised" /\ raised' = ConfigError /\ chunks' = chunks
       ELSE pc' = "connect" /\ raised' = raised /\ chunks' \in IngestSplit(docs)
    /\ UNCHANGED <<ingestFrame, docs, next_file, store, written>>

\* select_embeddings(), weaviate_client_from_env(): either may raise.
Connect ==
    /\ pc = "connect"
    /\ \/ pc' = "drop" /\ raised' = raised
       \/ pc' = "raised" /\ raised' = ProviderError
    /\ UNCHANGED <<ingestFrame, docs, chunks, next_file, store, written>>

\* if rebuild and client.schema.exists(class_name): delete_class
DropCollection ==
    /\ pc = "drop"
    /\ store' = IF ShouldDrop(rebuild, store.exists) THEN EmptyStore ELSE store
    /\ pc' = "write"
    /\ UNCHANGED <<ingestFrame, docs, chunks, next_file, raised, written>>

\* Weaviate.from_documents: the collection is created when missing and the
\* chunks are added in order, here one per step.
WriteChunk ==
    /\ pc = "write"
    /\ written < Len(chunks)
    /\ store' = [exists |-> TRUE,
                 objects |-> Append(store.objects,
                                    [run |-> "current", chunk |-> chunks[written + 1]])]
    /\ written' = written + 1
    /\ UNCHANGED <<ingestFrame, docs, chunks, next_file, pc, raised>>

\* Weaviate.from_documents returns.
Written ==
    /\ pc = "write"
    /\ written = Len(chunks)
    /\ store' = [store EXCEPT !.exists = TRUE]
    /\ pc' = "done"
    /\ UNCHANGED <<ingestFrame, docs, chunks, next_file, raised, written>>

NextIngest ==
    \/ ReadFile
    \/ Loaded
    \/ SplitLoaded
    \/ Connect
    \/ DropCollection
    \/ WriteChunk
    \/ Written

SpecIngest == InitIngest /\ [][NextIngest]_vars

(***************************************************************************)
(* Properties of add_spans_inplace (under SpecSpans).                      *)
(***************************************************************************)
SpanStart(i) == located[i].metadata["span_start"]
SpanEnd(i) == located[i].metadata["span_end"]
Content(i) == located[i].page_content

\* sub occurs in original_text at offset p.
OccursAt(sub, p) ==
    /\ p >= 0
    /\ p + Len(sub) <= Len(original_text)
    /\ Slice(original_text, p, p + Len(sub)) = sub

\* The offsets at or after from at which sub occurs in original_text.
OccurrencesFrom(sub, from) == {p \in from..Len(original_text) : OccursAt(sub, p)}

\* The cursor with which chunk i was searched, read off the spans written
\* before it: the span_end of the closest earlier resolved chunk, or 0.
CursorBefore(i) ==
    LET prior == {j \in 1..(i - 1) : SpanEnd(j) # None}
    IN  IF prior = {} THEN 0
        ELSE SpanEnd(CHOOSE j \in prior : \A k \in prior : k <= j)

\* C1: the non-null span_start values, read in chunk order, are
\* non-decreasing.
C1_SpanStartsNonDecreasing ==
    \A i, j \in 1..Len(located) :
        (i < j /\ SpanStart(i) # None /\ SpanStart(j) # None)
            => SpanStart(i) <= SpanStart(j)

\* C1 witness: a resolved chunk, then an unmatched one, then a chunk resolved
\* further to the right.
C1_Witness ==
    /\ Len(located) = 3
    /\ SpanStart(1) # None
    /\ SpanStart(2) = None
    /\ SpanStart(3) # None
    /\ SpanStart(1) < SpanStart(3)

\* C2: a chunk resolved by the exact step has original_text[span_start:
\* span_end] equal to its content; a chunk resolved by the stripped step has
\* it equal to its stripped content.
C2_SpanSlicesContent ==
    \A i \in 1..Len(located) :
        /\ resolved_by[i] = "exact" =>
              /\ 0 <= SpanStart(i) /\ SpanStart(i) <= SpanEnd(i)
              /\ SpanEnd(i) <= Len(original_text)
              /\ Slice(original_text, SpanStart(i), SpanEnd(i)) = Content(i)
        /\ resolved_by[i] = "stripped" =>
              /\ 0 <= SpanStart(i) /\ SpanStart(i) <= SpanEnd(i)
              /\ SpanEnd(i) <= Len(original_text)
              /\ Slice(original_text, SpanStart(i), SpanEnd(i)) = Strip(Content(i))

\* C2 witness: one call resolves a chunk by the exact step and another, with
\* surrounding whitespace, by the stripped step.
C2_Witness ==
    /\ \E i \in 1..Len(located) : resolved_by[i] = "exact" /\ Content(i) # <<>>
    /\ \E i \in 1..Len(located) :
          /\ resolved_by[i] = "stripped"
          /\ Len(Strip(Content(i))) < Len(Content(i))

\* C3, as claimed: whenever both spans are non-null,
\* 0 <= span_start < span_end <= len(original_text), whatever the content.
C3_SpanBoundsStrict ==
    \A i \in 1..Len(located) :
        (SpanStart(i) # None /\ SpanEnd(i) # None) =>
            /\ 0 <= SpanStart(i)
            /\ SpanStart(i) < SpanEnd(i)
            /\ SpanEnd(i) <= Len(original_text)

\* C4, as claimed: of two consecutive chunks with identical content that
\* occurs at least twice in original_text, the second is resolved, not to the
\* position of the first, but to the next occurrence at or after the first
\* chunk's span_end.  (Stated here for non-empty content only, and for a first
\* chunk that is resolved: the cases in which "the position of the first" and
\* "the next occurrence" are meaningful.)
C4_DuplicateResolvesToNextOccurrence ==
    \A i \in 1..(Len(located) - 1) :
        (/\ Content(i) = Content(i + 1)
         /\ Content(i) # <<>>
         /\ Cardinality(OccurrencesFrom(Content(i), 0)) >= 2
         /\ SpanStart(i) # None)
        => /\ SpanStart(i + 1) # None
           /\ SpanStart(i + 1) # SpanStart(i)
           /\ OccurrencesFrom(Content(i), SpanEnd(i)) # {}
           /\ SpanStart(i + 1) = SetMin(OccurrencesFrom(Content(i), SpanEnd(i)))

\* C4, amended: of two consecutive chunks with identical non-empty content,
\* the first of them resolved, the second is never resolved to the position of
\* the first: any span it gets starts at or after the first chunk's span_end,
\* and when the content occurs at or after that span_end the second chunk is
\* resolved to the first such occurrence; when it does not, the second chunk
\* is not resolved by the exact step.
C4_DuplicateResolvesPastFirst ==
    \A i \in 1..(Len(located) - 1) :
        (/\ Content(i) = Content(i + 1)
         /\ Content(i) # <<>>
         /\ SpanStart(i) # None)
        => /\ SpanStart(i + 1) # None =>
                /\ SpanStart(i + 1) # SpanStart(i)
                /\ SpanStart(i + 1) >= SpanEnd(i)
           /\ OccurrencesFrom(Content(i), SpanEnd(i)) # {} =>
                /\ SpanStart(i + 1) = SetMin(OccurrencesFrom(Content(i), SpanEnd(i)))
                /\ SpanEnd(i + 1) = SpanStart(i + 1) + Len(Content(i))
           /\ OccurrencesFrom(Content(i), SpanEnd(i)) = {} =>
                resolved_by[i + 1] # "exact"

\* C4 witness: the content occurs twice; the first chunk resolves to offset 0
\* and the identical second chunk to the second occurrence.
C4_Witness ==
    /\ Len(located) >= 2
    /\ Content(1) = Content(2)
    /\ Content(1) # <<>>
    /\ Cardinality(OccurrencesFrom(Content(1), 0)) = 2
    /\ SpanStart(1) = 0
    /\ SpanStart(2) = SetMin(OccurrencesFrom(Content(1), 1))
    /\ SpanStart(2) >= SpanEnd(1)

\* C5: a chunk whose content, stripped content and stripped prefix probe all
\* have no occurrence in original_text at or after the cursor gets span_start
\* and span_end both null, and the loop goes on: every chunk read so far has
\* both keys written.
C5_UnmatchedIsNull ==
    /\ Len(located) = Len(given)
    /\ \A i \in 1..Len(located) :
          /\ {"span_start", "span_end"} \subseteq DOMAIN located[i].metadata
          /\ LET text == Content(i)
                 prefix == Strip(Slice(text, 0, Min(PrefixLen, Len(text))))
                 from == CursorBefore(i)
             IN  (/\ OccurrencesFrom(text, from) = {}
                  /\ OccurrencesFrom(Strip(text), from) = {}
                  /\ OccurrencesFrom(prefix, from) = {})
                 => (SpanStart(i) = None /\ SpanEnd(i) = None)

\* C5 witness: a chunk whose letters occur only before the cursor is left
\* null, and the chunk after it is still resolved.
C5_Witness ==
    /\ Len(located) = 3
    /\ SpanStart(1) # None /\ SpanEnd(1) > 0
    /\ Strip(Content(2)) # <<>>
    /\ OccurrencesFrom(Strip(Content(2)), 0) # {}
    /\ SpanStart(2) = None /\ SpanEnd(2) = None
    /\ SpanStart(3) # None
    /\ cursor = SpanEnd(3)

\* The stripped prefix probe of a content.
PrefixProbe(text) == Strip(Slice(text, 0, Min(PrefixLen, Len(text))))

\* C17: when the exact step fails for a chunk and its stripped content is
\* non-empty, differs from the content and first occurs in original_text at
\* offset p at or after the cursor, the chunk gets span_start = p and
\* span_end = p + len(stripped content).  Stated of the chunk read last:
\* every chunk is the last one in the state after its iteration.
C17_StrippedStepSpan ==
    \A i \in {Len(located)} \ {0} :
        LET text == Content(i)
            stripped == Strip(text)
            from == CursorBefore(i)
        IN  (/\ OccurrencesFrom(text, from) = {}
             /\ stripped # <<>>
             /\ stripped # text
             /\ OccurrencesFrom(stripped, from) # {})
            => /\ SpanStart(i) = SetMin(OccurrencesFrom(stripped, from))
               /\ SpanEnd(i) = SpanStart(i) + Len(stripped)

\* C17 witness: a chunk with surrounding whitespace is resolved by the
\* stripped step to an occurrence at or after a cursor that has advanced,
\* the stripped content occurring before the cursor as well.
C17_Witness ==
    \E i \in 1..Len(located) :
        /\ resolved_by[i] = "stripped"
        /\ CursorBefore(i) > 0
        /\ SpanStart(i) >= CursorBefore(i)
        /\ SpanEnd(i) = SpanStart(i) + Len(Strip(Content(i)))
        /\ \E p \in 0..(CursorBefore(i) - 1) : OccursAt(Strip(Content(i)), p)

\* C18, as claimed: when a chunk was resolved by the exact step and the
\* content of the next chunk occurs in original_text at an offset inside the
\* earlier span (after its start, before its span_end) and reaching its end,
\* as overlapping windows do, the later chunk is resolved to such an
\* occurrence.
C18_OverlappingWindowResolved ==
    \A i \in 1..(Len(located) - 1) :
        LET later == Content(i + 1)
            inside == {p \in 0..Len(original_text) :
                         /\ OccursAt(later, p)
                         /\ SpanStart(i) < p
                         /\ p < SpanEnd(i)
                         /\ p + Len(later) >= SpanEnd(i)}
        IN  (/\ resolved_by[i] = "exact"
             /\ later # <<>>
             /\ inside # {})
            => /\ SpanStart(i + 1) \in inside
               /\ SpanEnd(i + 1) = SpanStart(i + 1) + Len(later)

\* The cursor rule of one loop iteration.
CursorRule ==
    Len(located') = Len(located) + 1 =>
        LET end == located'[Len(located')].metadata["span_end"]
        IN  /\ cursor' >= cursor
            /\ end # None => cursor' = end
            /\ end = None => cursor' = cursor

\* C19: the cursor starts at 0 and never decreases; after a chunk is
\* resolved it equals that chunk's span_end; after a chunk that cannot be
\* recovered it is unchanged.
C19_CursorMonotone == (cursor = 0) /\ [][CursorRule]_vars

\* C19 witness: the cursor stands at the span_end of the first chunk after a
\* second chunk that could not be recovered.
C19_Witness ==
    /\ Len(located) = 2
    /\ SpanEnd(1) # None /\ SpanEnd(1) > 0
    /\ SpanEnd(2) = None
    /\ cursor = SpanEnd(1)

\* C20: when the exact and stripped steps both fail for a chunk and its
\* stripped prefix probe is non-empty and first occurs in original_text at
\* offset p at or after the cursor, the chunk gets span_start = p and
\* span_end = min(len(original_text), p + len(content)); the span begins with
\* the probe and is never longer than the content.  Stated of the chunk
\* read last.
C20_PrefixStepSpan ==
    \A i \in {Len(located)} \ {0} :
        LET text == Content(i)
            stripped == Strip(text)
            prefix == PrefixProbe(text)
            from == CursorBefore(i)
        IN  (/\ OccurrencesFrom(text, from) = {}
             /\ \/ stripped = <<>>
                \/ stripped = text
                \/ OccurrencesFrom(stripped, from) = {}
             /\ prefix # <<>>
             /\ OccurrencesFrom(prefix, from) # {})
            => LET p == SetMin(OccurrencesFrom(prefix, from))
               IN  /\ SpanStart(i) = p
                   /\ SpanEnd(i) = Min(Len(original_text), p + Len(text))
                   /\ SpanStart(i) + Len(prefix) <= SpanEnd(i)
                   /\ Slice(original_text, SpanStart(i), SpanStart(i) + Len(prefix)) = prefix
                   /\ SpanEnd(i) - SpanStart(i) <= Len(text)

\* C20 witness: a chunk resolved by the prefix step whose end was clamped to
\* the end of the text, after the cursor had advanced.
C20_Witness ==
    \E i \in 1..Len(located) :
        /\ resolved_by[i] = "prefix"
        /\ CursorBefore(i) > 0
        /\ SpanEnd(i) = Len(original_text)
        /\ SpanEnd(i) < SpanStart(i) + Len(Content(i))

\* C25: spans resolved by one call never overlap: a chunk with a non-null
\* span starts at or after the span_end of the closest earlier chunk with a
\* non-null span.  Stated of the chunk read last.
C25_SpansDoNotOverlap ==
    \A i \in {Len(located)} \ {0} :
        SpanStart(i) # None =>
            /\ SpanStart(i) >= CursorBefore(i)
            /\ SpanStart(i) <= SpanEnd(i)

\* C25 witness: the content of the second chunk occurs inside the span of
\* the first, and the second chunk is resolved to a later occurrence that
\* begins where the first span ends.
C25_Witness ==
    /\ Len(located) = 2
    /\ SpanStart(1) = 0 /\ SpanEnd(1) > 0
    /\ Content(2) # <<>>
    /\ OccursAt(Content(2), 0)
    /\ SpanStart(2) = SpanEnd(1)
    /\ SpanEnd(2) > SpanStart(2)

\* The frame of one loop iteration: the chunk read keeps its content and
\* every metadata key it had, gains span_start and span_end, both null or
\* both integers; the chunks read before and original_text are untouched,
\* and no chunk is added, dropped or moved.
SpanFrameRule ==
    Len(located') = Len(located) + 1 =>
        LET n == Len(located')
            before == given'[n]
            after == located'[n]
            others == DOMAIN before.metadata \ {"span_start", "span_end"}
        IN  /\ Len(given') = n
            /\ SubSeq(located', 1, n - 1) = located
            /\ SubSeq(given', 1, n - 1) = given
            /\ original_text' = original_text
            /\ after.page_content = before.page_content
            /\ DOMAIN after.metadata = DOMAIN before.metadata \cup {"span_start", "span_end"}
            /\ \A key \in others : after.metadata[key] = before.metadata[key]
            /\ (after.metadata["span_start"] = None) <=> (after.metadata["span_end"] = None)
            /\ after.metadata["span_start"] \in {None} \cup (0..Len(original_text))
            /\ after.metadata["span_end"] \in {None} \cup (0..Len(original_text))

\* C26: add_spans_inplace writes only span_start and span_end, both on every
\* chunk, both null or both integers; content, other metadata keys, number
\* and order of the chunks and original_text are unchanged.
C26_OnlySpanKeysWritten == [][SpanFrameRule]_vars

\* C26 witness: of two chunks read, the first got integer spans and the
\* second null ones, both keeping their source and content.
C26_Witness ==
    /\ Len(located) = 2
    /\ SpanStart(1) # None /\ SpanEnd(1) # None
    /\ SpanStart(2) = None /\ SpanEnd(2) = None
    /\ \A i \in 1..2 :
          /\ located[i].metadata["source"] = given[i].metadata["source"]
          /\ located[i].page_content = given[i].page_content

(***************************************************************************)
(* Properties of chunk_documents (under Spec).                             *)
(***************************************************************************)
HasSpans(c) ==
    "span_start" \in DOMAIN c.metadata \/ "span_end" \in DOMAIN c.metadata

\* C6: chunk_documents with include_spans and more than one document never
\* returns: it ends with a ValueError, the usage error whenever the sizes are
\* accepted; and chunks carry spans only when there is exactly one document.
C6_MultiDocumentSpansRejected ==
    /\ (include_spans /\ Len(docs) > 1) =>
          /\ pc # "returned"
          /\ pc = "raised" => raised \in {ConfigError, UsageError}
          /\ (pc = "raised" /\ ~BuildSplittersRaises(chunk_size, chunk_overlap))
                => raised = UsageError
    /\ (\E i \in 1..Len(chunks) : HasSpans(chunks[i])) => Len(docs) = 1

\* C6 witness: two documents were segmented into two chunks and the call
\* ended with the usage error, no chunk carrying a span.
C6_Witness ==
    /\ include_spans
    /\ Len(docs) = 2
    /\ pc = "raised"
    /\ raised = UsageError
    /\ Len(chunks) = 2
    /\ \A i \in 1..Len(chunks) : ~HasSpans(chunks[i])

\* C7, as claimed: with chunk_overlap >= chunk_size or chunk_size <= 0 the
\* call ends with the configuration error before any document is segmented,
\* and no chunk is produced.
C7_InvalidSizesRejectedBeforeSegmentation ==
    (chunk_overlap >= chunk_size \/ chunk_size <= 0) =>
        /\ chunks = <<>>
        /\ pc # "returned"
        /\ pc = "raised" => raised = ConfigError

\* C8: when chunk_documents returns n chunks with include_preview_metadata,
\* the chunk_index values in output order are 0, 1, ..., n-1.
C8_ChunkIndexContiguous ==
    (pc = "returned" /\ include_preview_metadata) =>
        \A i \in 1..Len(chunks) :
            /\ "chunk_index" \in DOMAIN chunks[i].metadata
            /\ chunks[i].metadata["chunk_index"] = i - 1

\* C8 witness: two documents with different sources returned one chunk each,
\* annotated.
C8_Witness ==
    /\ pc = "returned"
    /\ include_preview_metadata
    /\ Len(docs) = 2
    /\ Len(chunks) = 2
    /\ chunks[1].metadata["source"] # chunks[2].metadata["source"]
    /\ chunks[2].metadata["chunk_index"] = 1

\* C9: running the preview-metadata loop a second time over the annotated
\* chunks, with the same method, chunk_size and chunk_overlap and the same
\* order, changes no metadata field and no content.
C9_AnnotationIdempotent ==
    [][(passes = 1 /\ passes' = 2) => chunks' = chunks]_vars

\* C9 witness: the loop ran twice over chunks one of which carries header
\* context and spans.
C9_Witness ==
    /\ passes = 2
    /\ Len(chunks) >= 1
    /\ \E i \in 1..Len(chunks) :
          /\ "h1" \in DOMAIN chunks[i].metadata
          /\ HasSpans(chunks[i])
          /\ chunks[i].metadata["chunk_chars"] = Len(chunks[i].page_content)

\* The call has segmented its documents.
Segmented == pc \in {"annotate", "spans", "returned"} \/ raised = UsageError

HeaderKeys == {"h1", "h2", "h3"}

\* The sources of the model that end in .md or .mdx.
MarkdownSources == {"guide.md", "page.mdx"}

C16_ChunkCarriesOwnSource ==
    Segmented =>
        \A k \in 1..Len(chunks) :
            LET own == docs[origin[k]].metadata
                got == chunks[k].metadata
            IN  /\ "source" \in DOMAIN own =>
                      ("source" \in DOMAIN got /\ got["source"] = own["source"])
                /\ ("source" \notin DOMAIN own /\ "source" \in DOMAIN got) =>
                      got["source"] = ""

\* C16 witness: under recursive_only two documents with different sources
\* returned one chunk each, each chunk with the source of its own document.
C16_Witness ==
    /\ pc = "returned"
    /\ method = "recursive_only"
    /\ Len(docs) = 2
    /\ origin = <<1, 2>>
    /\ "source" \in DOMAIN docs[1].metadata
    /\ "source" \in DOMAIN docs[2].metadata
    /\ docs[1].metadata["source"] # docs[2].metadata["source"]
    /\ chunks[1].metadata["source"] = docs[1].metadata["source"]
    /\ chunks[2].metadata["source"] = docs[2].metadata["source"]

\* C21: after annotation every chunk has chunk_chars equal to the length of
\* its own content, and chunking_method, chunk_size and chunk_overlap equal
\* to the arguments of the call, whatever document or section it came from.
C21_AnnotationFields ==
    passes >= 1 =>
        \A i \in 1..Len(chunks) :
            /\ {"chunk_chars", "chunking_method", "chunk_size", "chunk_overlap"}
                  \subseteq DOMAIN chunks[i].metadata
            /\ chunks[i].metadata["chunk_chars"] = Len(chunks[i].page_content)
            /\ chunks[i].metadata["chunking_method"] = method
            /\ chunks[i].metadata["chunk_size"] = chunk_size
            /\ chunks[i].metadata["chunk_overlap"] = chunk_overlap

\* C21 witness: a chunk of a Markdown section and a chunk of a plain document
\* were annotated in one call whose chunk_size and chunk_overlap differ.
C21_Witness ==
    /\ passes = 1
    /\ chunk_size # chunk_overlap
    /\ Len(chunks) = 2
    /\ "h1" \in DOMAIN chunks[1].metadata
    /\ "h1" \notin DOMAIN chunks[2].metadata
    /\ chunks[2].metadata["chunk_size"] = chunk_size

\* The frame of the annotation loop: same number and order of chunks, same
\* contents, same header context, a source already present kept and an
\* absent one filled with "".
AnnotationFrameRule ==
    passes' # passes =>
        /\ Len(chunks') = Len(chunks)
        /\ \A i \in 1..Len(chunks) :
              LET before == chunks[i].metadata
                  after == chunks'[i].metadata
              IN  /\ chunks'[i].page_content = chunks[i].page_content
                  /\ DOMAIN after \cap HeaderKeys = DOMAIN before \cap HeaderKeys
                  /\ \A key \in DOMAIN before \cap HeaderKeys : after[key] = before[key]
                  /\ "source" \in DOMAIN after
                  /\ after["source"] = IF "source" \in DOMAIN before
                                       THEN before["source"] ELSE ""

\* C22: the annotation step leaves each chunk's content, header context and
\* an already present source unchanged, fills an absent source with "", and
\* does not add, drop or reorder chunks.
C22_AnnotationFrame == [][AnnotationFrameRule]_vars

\* C22 witness: under recursive_only two documents, the second without a
\* source, were annotated: the first chunk kept its source and the second
\* got "".
C22_Witness ==
    /\ passes = 1
    /\ method = "recursive_only"
    /\ Len(docs) = 2
    /\ origin = <<1, 2>>
    /\ "source" \notin DOMAIN docs[2].metadata
    /\ chunks[1].metadata["source"] = "notes.txt"
    /\ chunks[2].metadata["source"] = ""

(***************************************************************************)
(* Properties of the recursive_only windowing (under SpecSplit).           *)
(***************************************************************************)
SplitDocText == docs[1].page_content

\* The length of the longest string that is both a suffix of x and a
\* prefix of y.
LongestSuffixPrefix(x, y) ==
    SetMax({n \in 0..Min(Len(x), Len(y)) :
               SubSeq(x, Len(x) - n + 1, Len(x)) = SubSeq(y, 1, n)})

\* The number of characters of the document that chunks k and k+1 were both
\* cut from.
Carried(k) ==
    IF windows[k][2] > windows[k + 1][1] THEN windows[k][2] - windows[k + 1][1] ELSE 0

\* The non-whitespace characters of a text, in order.
NonSpace(text) == SelectSeq(text, LAMBDA c : ~IsSpace(c))

\* The contents of chunks 1..k concatenated in order, each chunk after the
\* first without the characters it shares with the one before.
RECURSIVE Rebuilt(_)
Rebuilt(k) ==
    IF k = 0 THEN <<>>
    ELSE IF k = 1 THEN chunks[1].page_content
    ELSE LET content == chunks[k].page_content
         IN  Rebuilt(k - 1) \o
                SubSeq(content, Min(Carried(k - 1), Len(content)) + 1, Len(content))

\* C11: with method recursive_only and sizes the call accepts, every chunk
\* has at most chunk_size characters, whatever the text.
C11_ChunkLengthBounded ==
    Segmented =>
        \A k \in 1..Len(chunks) : Len(chunks[k].page_content) <= chunk_size

\* C11 witness: a text without any whitespace, longer than chunk_size, was
\* returned in several chunks, one of them of exactly chunk_size characters.
C11_Witness ==
    /\ pc = "returned"
    /\ chunk_size >= 2
    /\ chunk_overlap < chunk_size
    /\ NonSpace(SplitDocText) = SplitDocText
    /\ Len(SplitDocText) > chunk_size
    /\ Len(chunks) >= 2
    /\ \E k \in 1..Len(chunks) : Len(chunks[k].page_content) = chunk_size

\* C12, as claimed: for consecutive chunks of the document, the longest
\* string that is both a suffix of the earlier chunk and a prefix of the
\* later chunk has at most chunk_overlap characters.
C12_SharedSuffixPrefixBounded ==
    Segmented =>
        \A k \in 1..(Len(chunks) - 1) :
            LongestSuffixPrefix(chunks[k].page_content, chunks[k + 1].page_content)
                <= chunk_overlap

\* C12, amended: consecutive chunks repeat at most chunk_overlap characters
\* of the document.  Every chunk is the stretch of the text it was cut from,
\* the stretches begin and end in order, and the characters two consecutive
\* chunks were both cut from are at most chunk_overlap.
C12_CarriedOverlapBounded ==
    Segmented =>
        /\ Len(windows) = Len(chunks)
        /\ \A k \in 1..Len(chunks) :
              chunks[k].page_content = Slice(SplitDocText, windows[k][1], windows[k][2])
        /\ \A k \in 1..(Len(chunks) - 1) :
              /\ windows[k][1] <= windows[k + 1][1]
              /\ windows[k][2] <= windows[k + 1][2]
              /\ Carried(k) <= chunk_overlap

\* C12 witness: two consecutive chunks were cut with exactly chunk_overlap
\* characters in common, from a text that repeats itself so that their
\* longest shared suffix and prefix is longer than that.
C12_Witness ==
    /\ pc = "returned"
    /\ chunk_overlap > 0
    /\ \E k \in 1..(Len(chunks) - 1) :
          /\ Carried(k) = chunk_overlap
          /\ LongestSuffixPrefix(chunks[k].page_content, chunks[k + 1].page_content)
                > chunk_overlap

\* C13: the contents of all chunks of the document concatenated in order,
\* with the characters consecutive chunks share removed, contain the
\* non-whitespace characters of the document, all of them and in their
\* order.
C13_NonSpaceCovered ==
    Segmented => NonSpace(Rebuilt(Len(chunks))) = NonSpace(SplitDocText)

\* C13 witness: a text with whitespace between its words was returned in
\* overlapping chunks that, put together, are not the text itself.
C13_Witness ==
    /\ pc = "returned"
    /\ Len(chunks) >= 2
    /\ \E k \in 1..(Len(chunks) - 1) : Carried(k) > 0
    /\ chunk_overlap < chunk_size
    /\ \E i \in 2..(Len(SplitDocText) - 1) : IsSpace(SplitDocText[i])
    /\ ~IsSpace(SplitDocText[1])
    /\ ~IsSpace(SplitDocText[Len(SplitDocText)])
    /\ Rebuilt(Len(chunks)) # SplitDocText


(***************************************************************************)
(* Claims about ingest.                                                    *)
(***************************************************************************)

\* chunk_documents(ds) with method auto and both flags off: the possible
\* results.
ChunkDocumentsAuto(ds, size, overlap) ==
    IF BuildSplittersRaises(size, overlap) THEN {}
    ELSE {r.chunks : r \in SplitDocumentsAuto(ds)}

\* The objects the current run has written so far.
Fresh == [i \in 1..written |-> [run |-> "current", chunk |-> chunks[i]]]

\* read_text fails on the file.
ReadFails(file) == AllowedSuffix(file.path) /\ ~file.readable

PreviewAndSpanKeys == {"chunk_index", "chunk_chars", "span_start", "span_end"}

\* C23: in rebuild mode the collection holds nothing of the previous run
\* once the run writes, and nothing is dropped before that; with rebuild off
\* the collection is never dropped and holds the previous objects followed
\* by the chunks written so far, in order.
C23_RebuildDropsBeforeWrite ==
    /\ (rebuild /\ pc \in {"write", "done"}) => store.objects = Fresh
    /\ (rebuild /\ pc \notin {"write", "done"}) => store = store_before
    /\ ~rebuild => /\ store.objects = store_before.objects \o Fresh
                   /\ store_before.exists => store.exists
    /\ pc = "done" => written = Len(chunks) /\ store.exists

C23_Witness ==
    /\ pc = "done"
    /\ rebuild
    /\ store_before.objects = <<OldObject>>
    /\ written = 2
    /\ store.objects = Fresh

\* C24: once read_text has failed on a file, the run has stopped with that
\* error, no chunk was produced or written and the collection is as it was
\* before the run.
C24_ReadFailureStopsRun ==
    (\E i \in 1..(next_file - 1) : ReadFails(files[i]))
        => /\ pc = "raised"
           /\ raised = ReadError
           /\ chunks = <<>>
           /\ written = 0
           /\ store = store_before

C24_Witness ==
    /\ pc = "raised"
    /\ raised = ReadError
    /\ Len(files) = 2
    /\ next_file = 3
    /\ Len(docs) = 1
    /\ ReadFails(files[2])
    /\ store_before.objects = <<OldObject>>
    /\ store = store_before

\* C27: the chunk lists ingest may build from the loaded documents are the
\* lists chunk_documents may return for them with method auto, chunk_size
\* 800 and chunk_overlap 120; the setdefault of chunk_documents changes no
\* chunk of ingest; and no object the run writes carries chunk_index,
\* chunk_chars, span_start or span_end.
C27_IngestMatchesChunkDocuments ==
    /\ pc = "connect" =>
          /\ IngestSplit(docs) = ChunkDocumentsAuto(docs, IngestChunkSize, IngestChunkOverlap)
          /\ chunks \in ChunkDocumentsAuto(docs, IngestChunkSize, IngestChunkOverlap)
    /\ \A i \in 1..Len(chunks) :
          /\ "source" \in DOMAIN chunks[i].metadata
          /\ DOMAIN chunks[i].metadata \cap PreviewAndSpanKeys = {}
    /\ \A i \in 1..Len(store.objects) :
          store.objects[i].run = "current"
              => /\ i - (Len(store.objects) - written) \in 1..Len(chunks)
                 /\ store.objects[i].chunk = chunks[i - (Len(store.objects) - written)]

C27_Witness ==
    /\ pc = "done"
    /\ Len(docs) = 2
    /\ SourceOf(docs[1]) = "page.mdx"
    /\ SourceOf(docs[2]) = "notes.txt"
    /\ Len(chunks) = 2
    /\ "h1" \in DOMAIN chunks[1].metadata
    /\ "h1" \notin DOMAIN chunks[2].metadata
    /\ chunks[1].metadata["source"] = "page.mdx"
    /\ written = 2
    /\ chunks \in ChunkDocumentsAuto(docs, IngestChunkSize, IngestChunkOverlap)

(***************************************************************************)
(* Conversations and messages of src/src/core/db.py.  Every function runs  *)
(* in one transaction ("with connect() as conn"), so a call is one step.   *)
(***************************************************************************)

MaxConversations == 2
MaxMessages == 2
MaxDbCalls == 4

UserIds == {1, 2}
Roles == {"user", "assistant", "system"}
Contents == {"hi", "ok"}

RoleError == "ValueError: role must be 'user' or 'assistant'"
NotFoundError == "ValueError: conversation not found"

\* Owns looking at the conversation id alone.
OwnsWhoeverAsks(convs, user_id, conversation_id) ==
    \E row \in convs : row.id = conversation_id

\* SELECT 1 FROM conversations WHERE id = ? AND user_id = ? finds a row.
Owns(convs, user_id, conversation_id) ==
    \E row \in convs : row.id = conversation_id /\ row.user_id = user_id

\* SELECT role, content FROM messages WHERE conversation_id = ? ORDER BY id
MessagesOf(msgs, conversation_id) ==
    LET rows == SelectSeq(msgs, LAMBDA m : m.conversation_id = conversation_id)
    IN  [i \in 1..Len(rows) |-> [role |-> rows[i].role, content |-> rows[i].content]]

\* DELETE FROM conversations WHERE id = ? AND user_id = ?
DeleteRows(convs, user_id, conversation_id) ==
    {row \in convs : ~(row.id = conversation_id /\ row.user_id = user_id)}

\* messages.conversation_id REFERENCES conversations(id) ON DELETE CASCADE,
\* with PRAGMA foreign_keys = ON.
Cascade(msgs, convs) ==
    SelectSeq(msgs, LAMBDA m : \E row \in convs : row.id = m.conversation_id)

InitDb ==
    /\ original_text = <<>>
    /\ given = <<>>
    /\ located = <<>>
    /\ cursor = 0
    /\ resolved_by = <<>>
    /\ NoCall
    /\ NoIngest
    /\ NoDb
    /\ NoKb
    /\ NoStream

dbFrame == <<chunkingVars, ingestVars, kbVars, runs>>

\* create_conversation(user_id, title): the thread_id of the new row is a
\* fresh uuid, here the row id.
CreateConversation(user_id) ==
    /\ db_calls < MaxDbCalls
    /\ last_conversation_id < MaxConversations
    /\ last_conversation_id' = last_conversation_id + 1
    /\ conversations' = conversations \cup
           {[id |-> last_conversation_id + 1, user_id |-> user_id,
             thread_id |-> last_conversation_id + 1]}
    /\ db_calls' = db_calls + 1
    /\ db_result' = [op |-> "create_conversation", user_id |-> user_id,
                     conversation_id |-> last_conversation_id + 1,
                     value |-> <<>>, raised |-> ""]
    /\ UNCHANGED <<messages, dbFrame>>

\* add_message(user_id, conversation_id, role=role, content=content).  The
\* field by of a row is not a column: it records the caller.
AddMessage(user_id, conversation_id, role, content) ==
    /\ db_calls < MaxDbCalls
    /\ Len(messages) < MaxMessages
    /\ LET error == IF role \notin {"user", "assistant"} THEN RoleError
                    ELSE IF ~Owns(conversations, user_id, conversation_id)
                    THEN NotFoundError
                    ELSE ""
       IN  /\ messages' = IF error = ""
                          THEN Append(messages,
                                      [conversation_id |-> conversation_id,
                                       role |-> role, content |-> content,
                                       by |-> user_id])
                          ELSE messages
           /\ db_result' = [op |-> "add_message", user_id |-> user_id,
                            conversation_id |-> conversation_id,
                            value |-> <<>>, raised |-> error]
    /\ db_calls' = db_calls + 1
    /\ UNCHANGED <<conversations, last_conversation_id, dbFrame>>

\* list_messages(user_id, conversation_id)
ListMessages(user_id, conversation_id) ==
    /\ db_calls < MaxDbCalls
    /\ db_result' = [op |-> "list_messages", user_id |-> user_id,
                     conversation_id |-> conversation_id,
                     value |-> IF Owns(conversations, user_id, conversation_id)
                               THEN MessagesOf(messages, conversation_id)
                               ELSE <<>>,
                     raised |-> ""]
    /\ db_calls' = db_calls + 1
    /\ UNCHANGED <<conversations, messages, last_conversation_id, dbFrame>>

\* delete_conversation(user_id, conversation_id)
DeleteConversation(user_id, conversation_id) ==
    /\ db_calls < MaxDbCalls
    /\ conversations' = DeleteRows(conversations, user_id, conversation_id)
    /\ messages' = Cascade(messages, conversations')
    /\ db_result' = [op |-> "delete_conversation", user_id |-> user_id,
                     conversation_id |-> conversation_id,
                     value |-> <<>>, raised |-> ""]
    /\ db_calls' = db_calls + 1
    /\ UNCHANGED <<last_conversation_id, dbFrame>>

NextDb ==
    \E user_id \in UserIds :
        \/ CreateConversation(user_id)
        \/ \E conversation_id \in 1..MaxConversations :
              \/ \E role \in Roles, content \in Contents :
                    AddMessage(user_id, conversation_id, role, content)
              \/ ListMessages(user_id, conversation_id)
              \/ DeleteConversation(user_id, conversation_id)

SpecDb == InitDb /\ [][NextDb]_vars

(***************************************************************************)
(* Claims about conversations and messages.                                *)
(***************************************************************************)

\* The user the conversation belongs to, 0 when there is no such
\* conversation.
OwnerOf(conversation_id) ==
    IF \E row \in conversations : row.id = conversation_id
    THEN (CHOOSE row \in conversations : row.id = conversation_id).user_id
    ELSE 0

\* What a call on a conversation of somebody else, or on none, may do: list
\* nothing, raise without inserting, delete nothing.  What a call on one's
\* own conversation does.
OwnershipRule ==
    db_calls' # db_calls =>
        LET call == db_result'
            mine == OwnerOf(call.conversation_id) = call.user_id
        IN  /\ (call.op = "list_messages" /\ ~mine) => call.value = <<>>
            /\ (call.op = "list_messages" /\ mine) =>
                  /\ Len(call.value) = Cardinality({k \in 1..Len(messages) :
                         messages[k].conversation_id = call.conversation_id})
            /\ call.op = "list_messages" =>
                  /\ messages' = messages
                  /\ conversations' = conversations
            /\ (call.op = "add_message" /\ ~mine) =>
                  /\ call.raised # ""
                  /\ messages' = messages
                  /\ conversations' = conversations
            /\ (call.op = "add_message" /\ call.raised = "") =>
                  /\ mine
                  /\ Len(messages') = Len(messages) + 1
            /\ (call.op = "delete_conversation" /\ ~mine) =>
                  /\ messages' = messages
                  /\ conversations' = conversations
            /\ (call.op = "delete_conversation" /\ mine) =>
                  /\ \A row \in conversations' : row.id # call.conversation_id
                  /\ \A k \in 1..Len(messages') :
                        messages'[k].conversation_id # call.conversation_id

\* C28: whenever the conversation of a call is not owned by the calling
\* user, list_messages returns the empty list, add_message raises and
\* inserts nothing, delete_conversation deletes nothing; every stored
\* message was written by the owner of its conversation, and a conversation
\* id is never given out twice.
C28_OwnConversationsOnly ==
    /\ [][OwnershipRule]_vars
    /\ [](\A k \in 1..Len(messages) :
             messages[k].by = OwnerOf(messages[k].conversation_id))
    /\ [](\A row \in conversations : row.id <= last_conversation_id)

\* User 2 asked for the messages of the conversation of user 1, which holds
\* a message, and got nothing.
C28_Witness ==
    /\ db_result.op = "list_messages"
    /\ db_result.user_id = 2
    /\ OwnerOf(db_result.conversation_id) = 1
    /\ \E k \in 1..Len(messages) :
          messages[k].conversation_id = db_result.conversation_id
    /\ db_result.value = <<>>

(***************************************************************************)
(* The delete policy of the knowledge base: settings and kb_files of       *)
(* src/src/core/db.py, uploads of page_docs in src/app.py.  A policy value  *)
(* is a string, spelled as its characters.                                 *)
(***************************************************************************)

AdminOnly == <<"a", "d", "m", "i", "n", "_", "o", "n", "l", "y">>
AllUsers == <<"a", "l", "l", "_", "u", "s", "e", "r", "s">>
UploaderOnly == <<"u", "p", "l", "o", "a", "d", "e", "r", "_", "o", "n", "l", "y">>

\* The values set_setting may be given for kb_delete_policy.
PolicyValues ==
    {AdminOnly, AllUsers, UploaderOnly,
     <<>>, <<" ">>, <<"n", "o", "n", "e">>,
     AllUsers \o <<"\n">>, <<" ">> \o UploaderOnly}

Users ==
    {[id |-> 1, is_admin |-> TRUE],
     [id |-> 2, is_admin |-> FALSE],
     [id |-> 3, is_admin |-> FALSE]}

KbPaths == {"a.txt", "b.md"}

\* get_kb_delete_policy: (_get_setting(...) or "admin_only").strip(), and
\* admin_only for whatever is not one of the three policies.
GetKbDeletePolicy(setting) ==
    LET val == Strip(IF setting.present /\ setting.value # <<>>
                     THEN setting.value
                     ELSE AdminOnly)
    IN  IF val \notin {AdminOnly, AllUsers, UploaderOnly} THEN AdminOnly ELSE val

\* Upsert that leaves an existing row as it is.
UpsertKeepingFirst(rows, path, uploader_user_id) ==
    SetDefault(rows, path, uploader_user_id)

\* INSERT INTO kb_files ... ON CONFLICT(path) DO UPDATE SET uploader_user_id
Upsert(rows, path, uploader_user_id) == SetKey(rows, path, uploader_user_id)

NoMeta == [present |-> FALSE, uploader_user_id |-> None]

\* get_kb_file_meta(path)
GetKbFileMeta(rows, path) ==
    IF path \in DOMAIN rows
    THEN [present |-> TRUE, uploader_user_id |-> rows[path]]
    ELSE NoMeta

\* can_delete_kb_file(user, meta)
CanDeleteKbFile(user, meta, setting) ==
    LET policy == GetKbDeletePolicy(setting)
    IN  IF policy = AllUsers THEN TRUE
        ELSE IF policy = UploaderOnly
        THEN IF user.is_admin THEN TRUE
             ELSE meta.present /\ meta.uploader_user_id = user.id
        ELSE user.is_admin

InitKb ==
    /\ original_text = <<>>
    /\ given = <<>>
    /\ located = <<>>
    /\ cursor = 0
    /\ resolved_by = <<>>
    /\ NoCall
    /\ NoIngest
    /\ NoDb
    /\ NoKb
    /\ NoStream

kbFrame == <<chunkingVars, ingestVars, dbVars, runs>>

\* set_setting(user_id, "kb_delete_policy", value)
SetSetting(user, value) ==
    /\ kb_delete_policy' = [present |-> TRUE, value |-> value]
    /\ kb_answer' = NoAnswer
    /\ UNCHANGED <<kb_files, last_upload, kbFrame>>

\* page_docs: one uploaded file is saved and upsert_kb_file records the
\* user.  last_upload is not a table: it keeps who uploaded the name last
\* and who did before.
UploadFile(user, path) ==
    /\ kb_files' = Upsert(kb_files, path, user.id)
    /\ last_upload' =
          [p \in DOMAIN last_upload \cup {path} |->
              IF p # path THEN last_upload[p]
              ELSE [user_id |-> user.id,
                    earlier |-> IF path \in DOMAIN last_upload
                                THEN last_upload[path].earlier
                                         \cup {last_upload[path].user_id}
                                ELSE {}]]
    /\ kb_answer' = NoAnswer
    /\ UNCHANGED <<kb_delete_policy, kbFrame>>

\* page_docs: the selected file's meta is read and can_delete_kb_file
\* decides whether the delete button is enabled.
CanDelete(user, path) ==
    /\ kb_answer' = [user_id |-> user.id, path |-> path,
                     granted |-> CanDeleteKbFile(user,
                                                 GetKbFileMeta(kb_files, path),
                                                 kb_delete_policy)]
    /\ UNCHANGED <<kb_delete_policy, kb_files, last_upload, kbFrame>>

NextKb ==
    \E user \in Users :
        \/ \E value \in PolicyValues : SetSetting(user, value)
        \/ \E path \in KbPaths :
              \/ UploadFile(user, path)
              \/ CanDelete(user, path)

SpecKb == InitKb /\ [][NextKb]_vars

(***************************************************************************)
(* Claims about the delete policy.                                         *)
(***************************************************************************)

IsAdmin(user_id) == \E user \in Users : user.id = user_id /\ user.is_admin

\* The user asking uploaded the file name last.
AskedByLastUploader ==
    /\ kb_answer.path \in DOMAIN last_upload
    /\ last_upload[kb_answer.path].user_id = kb_answer.user_id

\* The stored value, nothing when there is no row.
StoredPolicy == IF kb_delete_policy.present THEN kb_delete_policy.value ELSE <<>>

MaxRuns == 2
MaxTokens == 2

\* The user of the requests and the threads asked for: thread 1 is the
\* user's, thread 2 is another user's.
StreamUser == 1
ThreadIds == {1, 2}

\* The content of the last input message.
Questions == {<<" ">>, <<"q">>, <<" ", "q">>}

\* What ask_stream may yield: non-empty strings.
Tokens == {<<"a">>, <<" ">>}

EmptyQuestion == "HTTPException 400: Last message content is empty"
ThreadNotFound == "ValueError: thread not found"

\* append_thread_message: the role stored for the role given, "" where it
\* raises.
DbRole(role) ==
    IF role \in {"human", "user"} THEN "user"
    ELSE IF role \in {"ai", "assistant"} THEN "assistant"
    ELSE ""

\* _get_conversation_id_by_thread_id: the ids of the rows found.
ConversationIdByThreadId(convs, user_id, thread_id) ==
    {row.id : row \in {x \in convs : x.user_id = user_id /\ x.thread_id = thread_id}}

\* get_thread_messages_as_lc(user_id, thread_id)
GetThreadMessagesAsLc(convs, msgs, user_id, thread_id) ==
    LET found == ConversationIdByThreadId(convs, user_id, thread_id)
        rows == SelectSeq(msgs, LAMBDA m : m.conversation_id \in found)
    IN  [i \in 1..Len(rows) |->
            [type |-> IF rows[i].role = "assistant" THEN "ai" ELSE "human",
             content |-> rows[i].content]]

\* HistoryForModel keeping the message just saved.
HistoryWithQuestion(history) == history

\* history_for_model = history[:-1]
HistoryForModel(history) ==
    IF history = <<>> THEN <<>> ELSE SubSeq(history, 1, Len(history) - 1)

\* "".join(answer_parts)
RECURSIVE Join(_)
Join(parts) == IF parts = <<>> THEN <<>> ELSE Head(parts) \o Join(Tail(parts))

\* A row written before the requests of the model.
EarlierRow == [conversation_id |-> 1, role |-> "user", content |-> <<"e">>, by |-> 0]

InitStream ==
    /\ original_text = <<>>
    /\ given = <<>>
    /\ located = <<>>
    /\ cursor = 0
    /\ resolved_by = <<>>
    /\ NoCall
    /\ NoIngest
    /\ NoKb
    /\ conversations = {[id |-> 1, user_id |-> 1, thread_id |-> 1],
                        [id |-> 2, user_id |-> 2, thread_id |-> 2]}
    /\ messages \in {<<>>, <<EarlierRow>>}
    /\ last_conversation_id = 2
    /\ db_calls = 0
    /\ db_result = NoResult
    /\ runs = <<>>

streamFrame == <<chunkingVars, ingestVars, kbVars, conversations,
                 last_conversation_id, db_calls, db_result>>

\* runs_stream up to "return StreamingResponse(...)".  The field by of the
\* row is the number of the request.
Request(thread_id, content) ==
    /\ Len(runs) < MaxRuns
    /\ LET run == Len(runs) + 1
           question == Strip(content)
           found == ConversationIdByThreadId(conversations, StreamUser, thread_id)
           saved == Append(messages,
                           [conversation_id |-> CHOOSE id \in found : TRUE,
                            role |-> DbRole("human"), content |-> question,
                            by |-> run])
           history == GetThreadMessagesAsLc(conversations, saved, StreamUser, thread_id)
           request == [thread_id |-> thread_id, question |-> question,
                       history |-> <<>>, answer_parts |-> <<>>, events |-> <<>>,
                       pc |-> "streaming", raised |-> ""]
       IN  IF question = <<>>
           THEN /\ runs' = Append(runs, [request EXCEPT !.pc = "raised",
                                                         !.raised = EmptyQuestion])
                /\ messages' = messages
           ELSE IF found = {}
           THEN /\ runs' = Append(runs, [request EXCEPT !.pc = "raised",
                                                         !.raised = ThreadNotFound])
                /\ messages' = messages
           ELSE /\ runs' = Append(runs, [request EXCEPT
                                             !.history = HistoryForModel(history)])
                /\ messages' = saved
    /\ UNCHANGED streamFrame

\* gen(): ask_stream yields a token, which is kept and sent.
StreamToken(run, token) ==
    /\ run \in 1..Len(runs)
    /\ runs[run].pc = "streaming"
    /\ Len(runs[run].answer_parts) < MaxTokens
    /\ runs' = [runs EXCEPT
                   ![run].answer_parts = Append(@, token),
                   ![run].events = Append(@, [event |-> "messages", content |-> token])]
    /\ UNCHANGED <<messages, streamFrame>>

\* gen(): ask_stream raises; except Exception: the error event, return.
StreamRaises(run) ==
    /\ run \in 1..Len(runs)
    /\ runs[run].pc = "streaming"
    /\ runs' = [runs EXCEPT
                   ![run].events = Append(@, [event |-> "error", content |-> <<>>]),
                   ![run].pc = "failed"]
    /\ UNCHANGED <<messages, streamFrame>>

\* gen(): ask_stream is exhausted; the answer is joined, stripped and
\* appended to the thread.
StreamEnds(run) ==
    /\ run \in 1..Len(runs)
    /\ runs[run].pc = "streaming"
    /\ LET answer == Strip(Join(runs[run].answer_parts))
           found == ConversationIdByThreadId(conversations, StreamUser,
                                             runs[run].thread_id)
       IN  messages' = Append(messages,
                              [conversation_id |-> CHOOSE id \in found : TRUE,
                               role |-> DbRole("ai"), content |-> answer,
                               by |-> run])
    /\ runs' = [runs EXCEPT ![run].pc = "done"]
    /\ UNCHANGED streamFrame

NextStream ==
    \/ \E thread_id \in ThreadIds, content \in Questions : Request(thread_id, content)
    \/ \E run \in 1..MaxRuns :
          \/ \E token \in Tokens : StreamToken(run, token)
          \/ StreamRaises(run)
          \/ StreamEnds(run)

SpecStream == InitStream /\ [][NextStream]_vars

(***************************************************************************)
(* Claims about runs_stream.                                               *)
(***************************************************************************)

\* The positions in messages of the rows a request wrote with a role.
RowsOf(run, role) ==
    {k \in 1..Len(messages) : messages[k].by = run /\ messages[k].role = role}

\* The events of a request that carry a token, those that report an error.
TokenEvents(run) ==
    {k \in 1..Len(runs[run].events) : runs[run].events[k].event = "messages"}

ErrorEvents(run) ==
    {k \in 1..Len(runs[run].events) : runs[run].events[k].event = "error"}

\* The thread as it was before the row at position k was written.
ThreadBefore(k) ==
    LET rows == SelectSeq(SubSeq(messages, 1, k - 1),
                          LAMBDA m : m.conversation_id = messages[k].conversation_id)
    IN  [i \in 1..Len(rows) |->
            [type |-> IF rows[i].role = "user" THEN "human" ELSE "ai",
             content |-> rows[i].content]]

\* C30: a request that streams has written its human message, once, before
\* its first token, and the history it gave to the model is the thread as
\* it was before that message; its assistant message is stored exactly when
\* the stream ended without an exception, once, after its human message and
\* holding all tokens; when the stream raised, the request ends with one
\* error event and stores no assistant message.
C30_StreamOrder ==
    \A run \in 1..Len(runs) :
        LET r == runs[run]
        IN  /\ r.pc = "raised" =>
                  /\ RowsOf(run, "user") = {}
                  /\ RowsOf(run, "assistant") = {}
                  /\ r.events = <<>>
            /\ r.pc # "raised" =>
                  /\ Cardinality(RowsOf(run, "user")) = 1
                  /\ \A k \in RowsOf(run, "user") :
                        /\ messages[k].content = r.question
                        /\ r.history = ThreadBefore(k)
                        /\ \A j \in RowsOf(run, "assistant") : k < j
            /\ Cardinality(RowsOf(run, "assistant")) = (IF r.pc = "done" THEN 1 ELSE 0)
            /\ \A j \in RowsOf(run, "assistant") :
                  /\ messages[j].content = Strip(Join(r.answer_parts))
                  /\ Cardinality(TokenEvents(run)) = Len(r.answer_parts)
            /\ Cardinality(ErrorEvents(run)) = (IF r.pc = "failed" THEN 1 ELSE 0)
            /\ r.pc = "failed" =>
                  /\ r.events[Len(r.events)].event = "error"
                  /\ RowsOf(run, "assistant") = {}
            /\ \A k \in 1..Len(r.events) :
                  r.events[k].event = "messages" =>
                      /\ k <= Len(r.answer_parts)
                      /\ r.events[k].content = r.answer_parts[k]

\* Two requests on one thread: the first streamed a token and raised, the
\* second streamed and stored its answer; the thread holds both questions
\* and one answer, and the history of the second held the first question.
C30_Witness ==
    /\ Len(runs) = 2
    /\ runs[1].pc = "failed"
    /\ Len(runs[1].events) = 2
    /\ runs[2].pc = "done"
    /\ runs[2].thread_id = runs[1].thread_id
    /\ Len(runs[2].answer_parts) = 2
    /\ Len(runs[2].history) = 1
    /\ Len(messages) = 3
    /\ messages[3].role = "assistant"
    /\ messages[3].by = 2

=============================================================================
